---- MODULE Spec2Model ----
(***************************************************************************)
(* Model of dace/libraries/blas/nodes/gemm.py: the Gemm library node, its  *)
(* validation, the batched-multiplication detection and the three          *)
(* expansions (pure, MKL, cuBLAS).                                         *)
(*                                                                         *)
(* Shapes are sequences of positive integers.  Python's None is NoneVal,   *)
(* an unbound local is Unbound.  An exception is a record [exc, msg]; a    *)
(* normal return has exc = "none".  Names imported from outside gemm.py    *)
(* (numpy, _get_matmul_inputs, get_gemm_opts, to_blastype, sym2cpp) are    *)
(* taken to resolve and to return what each call site unpacks.             *)
(***************************************************************************)
EXTENDS Integers, Sequences, FiniteSets, TLC

VARIABLES node, in_edges, out_edges, arrays, mm, pc, result, mem, pending

vars == <<node, in_edges, out_edges, arrays, mm, pc, result, mem, pending>>

(* ------------------------------ bounds -------------------------------- *)
\* largest extent of a dimension in the validation specification
MaxDim == 3
\* largest extent of a dimension of the matrices the emitted stages run on
MaxExecDim == 2
\* largest number of (i,j,k) triples of an executed multiplication map
MaxVolume == 8
\* largest value of alpha and beta
MaxScalar == 2
\* largest rank of an operand handed to _get_batchmm_opts
MaxBatchRank == 4

(* --------------------------- Python values ---------------------------- *)
NoneVal == <<-1>>
Unbound == <<-2>>

Ok == [exc |-> "none", msg |-> ""]
Err(e, m) == [exc |-> e, msg |-> m]

Reverse(s) == [i \in 1..Len(s) |-> s[Len(s) + 1 - i]]

(* ----------------------- subsets.Range.squeeze ------------------------ *)
NotUnit(d) == d # 1
\* subset.squeeze(); subset.size(): the sizes with the unit dimensions dropped
Squeeze(s) == SelectSeq(s, NotUnit)

(* ---------------------------- Gemm.validate --------------------------- *)
RECURSIVE EdgeSize(_, _, _)
\* the loop of lines 495-507: the squeezed size of the last in-edge whose
\* connector is conn, or dflt when no edge has that connector
EdgeSize(edges, conn, dflt) ==
    IF edges = <<>> THEN dflt
    ELSE LET e == edges[Len(edges)]
         IN IF e.dst_conn = conn THEN Squeeze(e.size)
            ELSE EdgeSize(SubSeq(edges, 1, Len(edges) - 1), conn, dflt)

MsgInputs == "Expected 2 or 3 inputs to gemm"
MsgOneOut == "Expected exactly one output from matrix-matrix product"
MsgMatrices == "matrix-matrix product only supported on matrices"
MsgKDim == "Inputs to matrix-matrix product must agree in the k-dimension"
MsgMN == "Output to matrix-matrix product must agree in the m and n dimensions"
MsgCSize == "Sizes of input and output C-matrix do not match"
MsgNoneLen == "object of type 'NoneType' has no len()"

\* validateSizes without the comparison of the k-dimensions (lines 517-519)
validateSizesNoKDim(size0, size1, size2, outs) ==
    IF Len(size0) # 2 THEN Err("ValueError", MsgMatrices)
    ELSE IF Len(size1) # 2 THEN Err("ValueError", MsgMatrices)
    ELSE IF size2 = NoneVal THEN Err("TypeError", MsgNoneLen)
    ELSE IF Len(size2) # 2 THEN Err("ValueError", MsgMatrices)
    ELSE LET size3 == Squeeze(outs[1].size)
         IN IF Len(size3) # 2 THEN Err("ValueError", MsgMatrices)
            ELSE IF size3 # <<size0[1], size1[2]>> THEN Err("ValueError", MsgMN)
            ELSE IF size2 # NoneVal /\ size2 # size3
                 THEN Err("ValueError", MsgCSize)
            ELSE Ok

\* the tests of lines 514-531, once size0, size1, size2 are bound
validateSizes(size0, size1, size2, outs) ==
    IF Len(size0) # 2 THEN Err("ValueError", MsgMatrices)
    ELSE IF Len(size1) # 2 THEN Err("ValueError", MsgMatrices)
    ELSE IF size2 = NoneVal THEN Err("TypeError", MsgNoneLen)
    ELSE IF Len(size2) # 2 THEN Err("ValueError", MsgMatrices)
    ELSE IF size0[2] # size1[1] THEN Err("ValueError", MsgKDim)
    ELSE LET size3 == Squeeze(outs[1].size)
         IN IF Len(size3) # 2 THEN Err("ValueError", MsgMatrices)
            ELSE IF size3 # <<size0[1], size1[2]>> THEN Err("ValueError", MsgMN)
            ELSE IF size2 # NoneVal /\ size2 # size3
                 THEN Err("ValueError", MsgCSize)
            ELSE Ok

validate(ins, outs) ==
    IF Len(ins) \notin {2, 3} THEN Err("ValueError", MsgInputs)
    ELSE LET size0 == EdgeSize(ins, "_a", Unbound)
             size1 == EdgeSize(ins, "_b", Unbound)
             size2 == EdgeSize(ins, "_c", NoneVal)
         IN IF Len(outs) # 1 THEN Err("ValueError", MsgOneOut)
            ELSE IF size0 = Unbound THEN Err("UnboundLocalError", "size0")
            ELSE IF Len(size0) = 2 /\ size1 = Unbound
                 THEN Err("UnboundLocalError", "size1")
            ELSE validateSizes(size0, size1, size2, outs)

(* ------------------------- _cast_to_dtype_str ------------------------- *)
ComplexDtypes == {"complex64", "complex128"}
\* _is_complex of an array element type (lines 97-101)
IsComplexDtype(dtype) == dtype \in ComplexDtypes
\* _is_complex(type(value)) of a scalar [val, kind]: a numpy complex scalar
\* is one of np.complex64/np.complex128; Python's own complex type is not
IsComplexScalar(value) == value.kind = "npcomplex"

\* lines 104-118: the exception raised, if any
castRaises(value, dtype) == IsComplexDtype(dtype) /\ IsComplexScalar(value)
\* lines 108-118: the number the emitted typed literal denotes
castValue(value, dtype) == value.val

(* ----------------------- ExpandGemmPure.make_sdfg --------------------- *)
NoSdfg ==
    [transient |-> FALSE, init_out |-> "", mul_out |-> "", scale |-> 0,
     a_idx |-> "", b_idx |-> "", M |-> 0, N |-> 0, K |-> 0,
     bias |-> FALSE, beta |-> 0, c_idx |-> "", add_in |-> "", add_out |-> ""]

\* lines 141-149
transShape(shape, trans) == IF trans THEN Reverse(shape) ELSE shape

\* aMemlet reading _a untransposed whatever transA is
aMemletNoTrans(transA) == "__i0, __i2"
\* line 209: the subscript of _a read by the multiplication tasklet
aMemlet(transA) == IF transA THEN "__i2, __i0" ELSE "__i0, __i2"
\* line 212: the subscript of _b read by the multiplication tasklet
bMemlet(transB) == IF transB THEN "__i1, __i2" ELSE "__i2, __i1"

\* usesTmp testing only for the _c operand, not for beta = 0
usesTmpWithC(n, shape_c) == shape_c # NoneVal
\* lines 179-187: whether the multiplication writes the temporary
usesTmp(n, shape_c) == ~(shape_c = NoneVal \/ n.beta.val = 0)
\* line 222: whether the addition map is emitted
emitsBias(n, shape_c) == shape_c # NoneVal /\ n.beta.val # 0

\* lines 227-239: the subscript of _c, "" when _c cannot be broadcast
biasMemlet(shape_c, M, N) ==
    IF shape_c = <<M, N>> THEN "__i0, __i1"
    ELSE IF shape_c = <<1, N>> THEN "0, __i1"
    ELSE IF shape_c = <<M, 1>> THEN "__i0, 0"
    ELSE IF shape_c = <<N>> THEN "__i1"
    ELSE ""

\* lines 170-174: the factor of the multiplication tasklet
mulScale(n, dtype_a) == IF n.alpha.val = 1 THEN 1 ELSE castValue(n.alpha, dtype_a)

\* make_sdfg (lines 127-256) on the shapes m = [a, b, c] that
\* _get_matmul_inputs returned and the descriptors arr of the outer arrays:
\* [exc, msg, sdfg]
make_sdfg(n, m, arr) ==
    LET tsa == transShape(m.a, n.transA)
        tsb == transShape(m.b, n.transB)
        fail(e, t) == [exc |-> e, msg |-> t, sdfg |-> NoSdfg]
    IN IF Len(tsa) # 2 \/ Len(tsb) # 2 THEN fail("SyntaxError", "Matrix sizes must match")
       ELSE IF tsa[2] # tsb[1] THEN fail("SyntaxError", "Matrix sizes must match")
       ELSE IF arr.a.storage # arr.b.storage
            THEN fail("ValueError", "Input matrices must have same storage")
       ELSE IF n.alpha.val # 1 /\ castRaises(n.alpha, arr.a.dtype)
            THEN fail("ValueError", "Cannot use complex beta with non-complex array")
       ELSE LET M == tsa[1]
                K == tsa[2]
                N == tsb[2]
                tmp == usesTmp(n, m.c)
                out == IF tmp THEN "tmp" ELSE "_y"
                bias == emitsBias(n, m.c)
                cidx == IF bias THEN biasMemlet(m.c, M, N) ELSE ""
            IN IF bias /\ castRaises(n.beta, arr.a.dtype)
               THEN fail("ValueError", "Cannot use complex beta with non-complex array")
               ELSE IF bias /\ cidx = ""
               THEN fail("ValueError", "Could not broadcast input _c")
               ELSE [exc |-> "none", msg |-> "",
                     sdfg |-> [transient |-> tmp, init_out |-> out, mul_out |-> out,
                               scale |-> mulScale(n, arr.a.dtype),
                               a_idx |-> aMemlet(n.transA),
                               b_idx |-> bMemlet(n.transB),
                               M |-> M, N |-> N, K |-> K,
                               bias |-> bias,
                               beta |-> IF bias THEN castValue(n.beta, arr.a.dtype) ELSE 0,
                               c_idx |-> cidx,
                               add_in |-> IF bias THEN out ELSE "",
                               add_out |-> IF bias THEN "_y" ELSE ""]]

(* -------------------------- _get_batchmm_opts ------------------------- *)
NoneInt == -1
\* Python truth of an optional shape: None and the empty list are false
Truthy(shape) == shape # NoneVal /\ shape # <<>>
\* Python truth of the local batch: None and 0 are false
BatchSet(batch) == batch # NoneInt /\ batch # 0

RECURSIVE Prod(_)
Prod(s) == IF s = <<>> THEN 1 ELSE s[1] * Prod(Tail(s))
\* the strides of a contiguous row-major array of this shape
Strides(shape) ==
    IF shape = NoneVal THEN NoneVal
    ELSE [i \in 1..Len(shape) |-> Prod(SubSeq(shape, i + 1, Len(shape)))]

NoBatch == [exc |-> "none", msg |-> "", batched |-> FALSE,
            sa |-> 0, sb |-> 0, sc |-> 0, b |-> NoneInt]
BatchErr(m) == [exc |-> "ValueError", msg |-> m, batched |-> FALSE,
                sa |-> 0, sb |-> 0, sc |-> 0, b |-> NoneInt]
MsgTooLarge == "Tensor dimensions too large for (batched) matrix multiplication"
MsgBatch == "Batch size mismatch for matrix multiplication"

\* lines 14-51; a normal return with batched = FALSE is the empty dictionary
get_batchmm_opts(a_shape, a_strides, b_shape, b_strides, c_shape, c_strides) ==
    IF Len(a_shape) > 3 \/ Len(b_shape) > 3 \/ (Truthy(c_shape) /\ Len(c_shape) > 3)
    THEN BatchErr(MsgTooLarge)
    ELSE IF Len(a_shape) <= 2 /\ Len(b_shape) <= 2 THEN NoBatch
    ELSE LET batch1 == IF Len(a_shape) = 3 THEN a_shape[1] ELSE NoneInt
             stride_a == IF Len(a_shape) = 3 THEN a_strides[1] ELSE 0
             bad2 == Len(b_shape) = 3 /\ BatchSet(batch1) /\ batch1 # b_shape[1]
             batch2 == IF Len(b_shape) = 3 THEN b_shape[1] ELSE batch1
             stride_b == IF Len(b_shape) = 3 THEN b_strides[1] ELSE 0
             c3 == Truthy(c_shape) /\ Len(c_shape) = 3
             bad3 == c3 /\ BatchSet(batch2) /\ batch2 # c_shape[1]
             batch3 == IF c3 THEN c_shape[1] ELSE batch2
             stride_c == IF c3 THEN c_strides[1] ELSE 0
         IN IF bad2 \/ bad3 THEN BatchErr(MsgBatch)
            ELSE IF batch3 = NoneInt THEN NoBatch
            ELSE [exc |-> "none", msg |-> "", batched |-> TRUE,
                  sa |-> stride_a, sb |-> stride_b, sc |-> stride_c, b |-> batch3]

(* ------------------------ _get_matmul_inputs -------------------------- *)
\* matmul._get_matmul_inputs: the squeezed sizes of the _a and _b edges and
\* of the _c edge, None without one
get_matmul_inputs(ins) ==
    [a |-> EdgeSize(ins, "_a", Unbound), b |-> EdgeSize(ins, "_b", Unbound),
     c |-> EdgeSize(ins, "_c", NoneVal)]

(* ------------------------ blas_helpers.get_gemm_opts ------------------ *)
\* for contiguous row-major arrays: operands swapped, no transposition,
\* leading dimensions the row strides
get_gemm_opts(a_strides, b_strides, c_strides) ==
    [swap |-> TRUE, ta |-> "N", tb |-> "N",
     lda |-> a_strides[Len(a_strides) - 1],
     ldb |-> b_strides[Len(b_strides) - 1],
     ldc |-> c_strides[Len(c_strides) - 1]]

(* ----------------------- _get_codegen_gemm_opts ----------------------- *)
NoCall ==
    [form |-> "", func |-> "", ta |-> "", tb |-> "", x |-> "", y |-> "",
     M |-> 0, N |-> 0, K |-> 0, lda |-> 0, ldb |-> 0, ldc |-> 0,
     alpha |-> [text |-> "", val |-> 0], beta |-> [text |-> "", val |-> 0],
     dtype |-> "", BATCH |-> NoneInt, stride_a |-> 0, stride_b |-> 0, stride_c |-> 0]

\* lines 54-94 on the shapes of _get_matmul_inputs and the descriptor of the
\* output: [exc, msg, opt]
get_codegen_gemm_opts(ashape, bshape, cshape, alpha, beta, cdtype, func) ==
    LET g == get_gemm_opts(Strides(ashape), Strides(bshape), Strides(cshape))
        bopt == get_batchmm_opts(ashape, Strides(ashape), bshape, Strides(bshape),
                                 cshape, Strides(cshape))
        sw == g.swap
        M == ashape[Len(ashape) - 1]
        N == bshape[Len(bshape)]
        K == ashape[Len(ashape)]
    IN IF bopt.exc # "none" THEN [exc |-> bopt.exc, msg |-> bopt.msg, opt |-> NoCall]
       ELSE [exc |-> "none", msg |-> "",
             opt |-> [form |-> "", func |-> func,
                      ta |-> IF sw THEN g.tb ELSE g.ta,
                      tb |-> IF sw THEN g.ta ELSE g.tb,
                      x |-> IF sw THEN "_b" ELSE "_a",
                      y |-> IF sw THEN "_a" ELSE "_b",
                      M |-> IF sw THEN N ELSE M,
                      N |-> IF sw THEN M ELSE N,
                      K |-> K,
                      lda |-> IF sw THEN g.ldb ELSE g.lda,
                      ldb |-> IF sw THEN g.lda ELSE g.ldb,
                      ldc |-> g.ldc,
                      alpha |-> alpha, beta |-> beta, dtype |-> cdtype,
                      BATCH |-> IF bopt.batched THEN bopt.b ELSE NoneInt,
                      stride_a |-> IF ~bopt.batched THEN 0
                                   ELSE IF sw THEN bopt.sb ELSE bopt.sa,
                      stride_b |-> IF ~bopt.batched THEN 0
                                   ELSE IF sw THEN bopt.sa ELSE bopt.sb,
                      stride_c |-> IF bopt.batched THEN bopt.sc ELSE 0]]

(* ----------------------------- expansions ----------------------------- *)
NoBopt == NoBatch
\* what an expansion hands back: kind is "sdfg" (pure), "tasklet" or
\* "nsdfg" (the staging subgraph), "none" after an exception
Failed(impl, e, m) ==
    [impl |-> impl, exc |-> e, msg |-> m, kind |-> "none",
     sdfg |-> NoSdfg, call |-> NoCall, staged |-> {}, bopt |-> NoBopt]
Lowered(impl, kind, sd, call, staged) ==
    [impl |-> impl, exc |-> "none", msg |-> "", kind |-> kind,
     sdfg |-> sd, call |-> call, staged |-> staged, bopt |-> NoBopt]

\* blas_helpers.to_blastype: the routine prefix, "" for a type BLAS lacks
to_blastype(dtype) ==
    CASE dtype = "float16" -> "H"
      [] dtype = "float32" -> "S"
      [] dtype = "float64" -> "D"
      [] dtype = "complex64" -> "C"
      [] dtype = "complex128" -> "Z"
      [] OTHER -> ""

\* ExpandGemmPure.expansion, lines 258-264
ExpandGemmPure(n, ins, outs, arr) ==
    LET v == validate(ins, outs)
    IN IF v.exc # "none" THEN Failed("pure", v.exc, v.msg)
       ELSE IF n.dtype = "None"
            THEN Failed("pure", "ValueError", "Data type must be set to expand")
       ELSE LET r == make_sdfg(n, get_matmul_inputs(ins), arr)
            IN IF r.exc # "none" THEN Failed("pure", r.exc, r.msg)
               ELSE Lowered("pure", "sdfg", r.sdfg, NoCall, {})

\* lines 277-291: the literals of alpha and beta handed to the routine
mklAlpha(n) ==
    CASE n.dtype = "float32" -> [text |-> "1.0f", val |-> 1]
      [] n.dtype = "float64" -> [text |-> "1.0", val |-> 1]
      [] n.dtype = "complex64" -> [text |-> "Complex64Pone()", val |-> 1]
      [] OTHER -> [text |-> "Complex128Pone()", val |-> 1]
mklBeta(n) ==
    CASE n.dtype = "float32" -> [text |-> "0.0f", val |-> 0]
      [] n.dtype = "float64" -> [text |-> "0.0", val |-> 0]
      [] n.dtype = "complex64" -> [text |-> "Complex64Zero()", val |-> 0]
      [] OTHER -> [text |-> "Complex128Zero()", val |-> 0]

\* lines 300-315: the form of the emitted code and the spelling of ta, tb
mklCode(opt) ==
    [opt EXCEPT !.form = IF opt.BATCH = NoneInt THEN "call" ELSE "loop",
                !.ta = IF opt.ta = "N" THEN "CblasNoTrans" ELSE "CblasTrans",
                !.tb = IF opt.tb = "N" THEN "CblasNoTrans" ELSE "CblasTrans"]

\* ExpandGemmMKL.expansion, lines 273-322
ExpandGemmMKL(n, ins, outs, arr) ==
    LET v == validate(ins, outs)
    IN IF v.exc # "none" THEN Failed("MKL", v.exc, v.msg)
       ELSE IF n.dtype = "None"
            THEN Failed("MKL", "AttributeError", "'NoneType' object has no attribute 'type'")
       ELSE IF to_blastype(n.dtype) = ""
            THEN Failed("MKL", "TypeError", "Type not supported in BLAS operations")
       ELSE IF n.dtype \notin {"float32", "float64", "complex64", "complex128"}
            THEN Failed("MKL", "ValueError", "Unsupported type for BLAS dot product")
       ELSE LET m == get_matmul_inputs(ins)
                o == get_codegen_gemm_opts(m.a, m.b, outs[1].size, mklAlpha(n),
                                           mklBeta(n), n.dtype,
                                           to_blastype(n.dtype) \o "gemm")
            IN IF o.exc # "none" THEN Failed("MKL", o.exc, o.msg)
               ELSE Lowered("MKL", "tasklet", NoSdfg, mklCode(o.opt), {})

OnDevice == {"GPU_Global", "CPU_Pinned"}

\* lines 356-373: whether the descriptor of each operand is found
cublasDescs(ins, outs, arr) ==
    [a |-> (\E i \in 1..Len(ins) : ins[i].dst_conn = "_a") /\ arr.a.access,
     b |-> (\E i \in 1..Len(ins) : ins[i].dst_conn = "_b") /\ arr.b.access,
     c |-> (\E i \in 1..Len(outs) : outs[i].src_conn = "_c") /\ arr.y.access]

\* lines 410-412: whether the staging subgraph is built
needsStaging(arr) ==
    \E d \in {arr.a, arr.b, arr.y} : d.storage \notin OnDevice

\* lines 353-354 and 380-398
cublasCode(opt) ==
    [opt EXCEPT !.form = IF opt.BATCH = NoneInt THEN "call" ELSE "StridedBatched"]

\* ExpandGemmCuBLAS.expansion, lines 331-443
ExpandGemmCuBLAS(n, ins, outs, arr) ==
    LET v == validate(ins, outs)
        d == cublasDescs(ins, outs, arr)
    IN IF v.exc # "none" THEN Failed("cuBLAS", v.exc, v.msg)
       ELSE IF n.dtype = "None"
            THEN Failed("cuBLAS", "AttributeError", "'NoneType' object has no attribute 'type'")
       ELSE IF to_blastype(n.dtype) = ""
            THEN Failed("cuBLAS", "TypeError", "Type not supported in BLAS operations")
       ELSE IF ~(d.a /\ d.b /\ d.c)
            THEN Failed("cuBLAS", "ValueError", "Unsupported input/output arrays")
       ELSE LET m == get_matmul_inputs(ins)
                o == get_codegen_gemm_opts(m.a, m.b, outs[1].size,
                         [text |-> "Pone()", val |-> 1], [text |-> "Zero()", val |-> 0],
                         n.dtype, to_blastype(n.dtype) \o "gemm")
            IN IF o.exc # "none" THEN Failed("cuBLAS", o.exc, o.msg)
               ELSE IF needsStaging(arr)
                    THEN Lowered("cuBLAS", "nsdfg", NoSdfg, cublasCode(o.opt),
                                 {<<"_a", "_a_gpu">>, <<"_b", "_b_gpu">>, <<"_c_gpu", "_c">>})
               ELSE Lowered("cuBLAS", "tasklet", NoSdfg, cublasCode(o.opt), {})

(* ------------------------------- state -------------------------------- *)
Real(v) == [val |-> v, kind |-> "real"]
InEdge(conn, size) == [dst_conn |-> conn, size |-> size]
OutEdge(conn, size) == [src_conn |-> conn, size |-> size]
Desc(dtype, storage, access) == [dtype |-> dtype, storage |-> storage, access |-> access]
HostArrays(dtype) ==
    [a |-> Desc(dtype, "CPU_Heap", TRUE), b |-> Desc(dtype, "CPU_Heap", TRUE),
     y |-> Desc(dtype, "CPU_Heap", TRUE)]
NoInputs == [a |-> <<>>, b |-> <<>>, c |-> NoneVal]
NoMem == [y |-> <<>>, tmp |-> <<>>]
NoResult == Failed("", "", "")

\* Gemm.__init__, lines 472-488
GemmNode(dtype, transA, transB, alpha, beta) ==
    [dtype |-> dtype, transA |-> transA, transB |-> transB,
     alpha |-> alpha, beta |-> beta]

Matrices(D) == {<<m, n>> : m \in D, n \in D}
Vectors(D) == {<<n>> : n \in D}

\* the connectors of the in-edges of the node, and whether a _c edge is among them
InLayouts == {<<"_a", "_b">>, <<"_a", "_b", "_c">>, <<"_a", "_b", "_c", "_c">>,
              <<"_a">>}
HasC(layout) == \E i \in 1..Len(layout) : layout[i] = "_c"
Edges(layout, sa, sb, sc) ==
    [i \in 1..Len(layout) |->
        InEdge(layout[i], IF layout[i] = "_a" THEN sa
                          ELSE IF layout[i] = "_b" THEN sb ELSE sc)]

(* ------------------------------ actions ------------------------------- *)
Idle == /\ pc = "start"
        /\ UNCHANGED <<node, in_edges, out_edges, arrays, mm, mem, pending>>

\* a compiler pass calls node.validate(sdfg, state)
Validate ==
    /\ Idle
    /\ LET v == validate(in_edges, out_edges)
       IN /\ result' = Failed("validate", v.exc, v.msg)
          /\ pc' = IF v.exc = "none" THEN "validated" ELSE "failed"

Expand(r) ==
    /\ Idle
    /\ result' = r
    /\ pc' = IF r.exc = "none" THEN "lowered" ELSE "failed"

ExpandPure == Expand(ExpandGemmPure(node, in_edges, out_edges, arrays))
ExpandMKL == Expand(ExpandGemmMKL(node, in_edges, out_edges, arrays))
ExpandCuBLAS == Expand(ExpandGemmCuBLAS(node, in_edges, out_edges, arrays))

Next == Validate \/ ExpandPure \/ ExpandMKL \/ ExpandCuBLAS

(* ------------------- specification: validation ------------------------ *)
Dims == 1..MaxDim
OperandShapes == Matrices(Dims) \cup {<<2>>, <<2, 2, 2>>}
BiasShapes == Matrices(Dims) \cup Vectors(Dims)
OutShapes == Matrices(Dims) \cup {<<2>>, <<2, 2, 2>>}

InitRest ==
    /\ mm = NoInputs
    /\ pc = "start"
    /\ result = NoResult
    /\ mem = NoMem
    /\ pending = {}

Init ==
    /\ \E ta \in BOOLEAN, tb \in BOOLEAN :
          node = GemmNode("float32", ta, tb, Real(1), Real(0))
    /\ \E layout \in InLayouts, sa \in OperandShapes, sb \in OperandShapes :
          \E sc \in IF HasC(layout) THEN BiasShapes ELSE {NoneVal} :
             /\ Len(layout) \notin {2, 3}
                   => sa = <<2, 2>> /\ sb = <<2, 2>> /\ sc \in {NoneVal, <<2, 2>>}
             /\ in_edges = Edges(layout, sa, sb, sc)
    /\ \E n \in 0..2, so \in OutShapes :
          /\ n # 1 => so = <<2, 2>>
          /\ out_edges = [i \in 1..n |-> OutEdge("_y", so)]
    /\ arrays = HostArrays("float32")
    /\ InitRest

Spec == Init /\ [][Next]_vars

(* ---------------- the stages the pure expansion emits ----------------- *)
\* the contents of the outer arrays _a, _b and _c
AVal(r, c) == 2 * r + c
BVal(r, c) == r + 3 * c
CVal(r, c) == 5 * r + 7 * c
CVec(j) == 11 * j
\* what _y holds before any stage has written it
Stale == 9

Fill(M, N, v) == [i \in 1..M |-> [j \in 1..N |-> v]]
Triples(M, N, K) == (1..M) \X (1..N) \X (1..K)

\* the element of _a the multiplication tasklet reads at (__i0, __i1, __i2) = (i, j, k)
readA(sd, i, k) == IF sd.a_idx = "__i0, __i2" THEN AVal(i, k) ELSE AVal(k, i)
readB(sd, k, j) == IF sd.b_idx = "__i2, __i1" THEN BVal(k, j) ELSE BVal(j, k)
\* the element of _c the addition tasklet reads at (__i0, __i1) = (i, j)
readC(sd, i, j) ==
    CASE sd.c_idx = "__i0, __i1" -> CVal(i, j)
      [] sd.c_idx = "0, __i1" -> CVal(1, j)
      [] sd.c_idx = "__i0, 0" -> CVal(i, 1)
      [] OTHER -> CVec(j)

\* ExpandGemmPure.make_sdfg called on the shapes mm of _get_matmul_inputs
MakeSdfg ==
    /\ pc = "start"
    /\ LET r == make_sdfg(node, mm, arrays)
       IN /\ result' = IF r.exc # "none" THEN Failed("pure", r.exc, r.msg)
                       ELSE Lowered("pure", "sdfg", r.sdfg, NoCall, {})
          /\ pc' = IF r.exc = "none" THEN "lowered" ELSE "failed"
    /\ UNCHANGED <<node, in_edges, out_edges, arrays, mm, mem, pending>>

\* the map gemm_init of the init state, lines 190-200
InitStage ==
    /\ pc = "lowered"
    /\ result.kind = "sdfg"
    /\ LET sd == result.sdfg
       IN /\ sd.M * sd.N * sd.K <= MaxVolume
          /\ mem' = [y |-> IF sd.init_out = "_y" THEN Fill(sd.M, sd.N, 0)
                           ELSE Fill(sd.M, sd.N, Stale),
                     tmp |-> IF sd.init_out = "tmp" THEN Fill(sd.M, sd.N, 0) ELSE <<>>]
          /\ pending' = Triples(sd.M, sd.N, sd.K)
    /\ pc' = "mul"
    /\ UNCHANGED <<node, in_edges, out_edges, arrays, mm, result>>

\* one (i, j, k) of the map _GEMM_, lines 203-220: the tasklet's product is
\* added to the output element by the write-conflict resolution
accumulate(sd, m, i, j, k) ==
    LET v == sd.scale * readA(sd, i, k) * readB(sd, k, j)
    IN IF sd.mul_out = "_y" THEN [m EXCEPT !.y[i][j] = @ + v]
       ELSE [m EXCEPT !.tmp[i][j] = @ + v]

MulStep ==
    /\ pc = "mul"
    /\ \E t \in pending :
          /\ mem' = accumulate(result.sdfg, mem, t[1], t[2], t[3])
          /\ pending' = pending \ {t}
          /\ pc' = IF pending' # {} THEN "mul"
                   ELSE IF result.sdfg.bias THEN "add" ELSE "done"
    /\ UNCHANGED <<node, in_edges, out_edges, arrays, mm, result>>

\* the map _Add_, lines 242-251
AddStage ==
    /\ pc = "add"
    /\ LET sd == result.sdfg
           src == IF sd.add_in = "tmp" THEN mem.tmp ELSE mem.y
       IN mem' = [mem EXCEPT !.y = [i \in 1..sd.M |-> [j \in 1..sd.N |->
                                       sd.beta * readC(sd, i, j) + src[i][j]]]]
    /\ pc' = "done"
    /\ UNCHANGED <<node, in_edges, out_edges, arrays, mm, result, pending>>

NextPure == MakeSdfg \/ InitStage \/ MulStep \/ AddStage

(* -------------------- specification: pure expansion ------------------- *)
ExecDims == 1..MaxExecDim
Scalars == 0..MaxScalar

InitPure ==
    /\ \E ta \in BOOLEAN, tb \in BOOLEAN, al \in Scalars, be \in Scalars :
          node = GemmNode("float32", ta, tb, Real(al), Real(be))
    /\ \E sa \in Matrices(ExecDims) \cup {<<2>>}, sb \in Matrices(ExecDims),
          sc \in {NoneVal} \cup Matrices(ExecDims) \cup Vectors(ExecDims) :
          mm = [a |-> sa, b |-> sb, c |-> sc]
    /\ in_edges = <<>>
    /\ out_edges = <<>>
    /\ \E st \in {"CPU_Heap", "GPU_Global"} :
          arrays = [HostArrays("float32") EXCEPT !.b.storage = st]
    /\ pc = "start"
    /\ result = NoResult
    /\ mem = NoMem
    /\ pending = {}

SpecPure == InitPure /\ [][NextPure]_vars

(* ------------- specification: lowering with alpha, beta, _c ----------- *)
LowerDims == 2..MaxDim
Dtypes == {"float32", "complex64", "float16", "None"}

InitLower ==
    /\ \E ta \in BOOLEAN, al \in Scalars, be \in Scalars, dt \in Dtypes :
          /\ node = GemmNode(dt, ta, FALSE, Real(al), Real(be))
          /\ arrays = HostArrays(IF dt = "None" THEN "float32" ELSE dt)
    /\ \E sa \in Matrices(LowerDims), sb \in Matrices(LowerDims),
          sc \in {NoneVal} \cup BiasShapes :
          in_edges = Edges(IF sc = NoneVal THEN <<"_a", "_b">>
                           ELSE <<"_a", "_b", "_c">>, sa, sb, sc)
    /\ \E so \in Matrices(LowerDims) : out_edges = <<OutEdge("_y", so)>>
    /\ InitRest

SpecLower == InitLower /\ [][Next]_vars

(* ------------------ specification: the GPU expansion ------------------ *)
Storages == {"CPU_Heap", "GPU_Global", "CPU_Pinned"}

InitGpu ==
    /\ node = GemmNode("float32", FALSE, FALSE, Real(1), Real(0))
    /\ \E sa \in {<<2, 3>>, <<3, 2>>}, sb \in Matrices(2..3),
          sc \in {NoneVal, <<2, 2>>, <<2, 3>>} :
          in_edges = Edges(IF sc = NoneVal THEN <<"_a", "_b">>
                           ELSE <<"_a", "_b", "_c">>, sa, sb, sc)
    \* the node declares the output connector _y (line 483); the GPU
    \* expansion looks for an out-edge leaving a connector _c (line 368)
    /\ \E conn \in {"_y", "_c"}, so \in {<<2, 2>>, <<2, 3>>} :
          out_edges = <<OutEdge(conn, so)>>
    /\ \E st \in [{"a", "b", "y"} -> Storages], ac \in [{"a", "b", "y"} -> BOOLEAN] :
          arrays = [o \in {"a", "b", "y"} |-> Desc("float32", st[o], ac[o])]
    /\ InitRest

SpecGpu == InitGpu /\ [][Next]_vars

(* ---------------- specification: _get_batchmm_opts -------------------- *)
RECURSIVE ShapesUpTo(_, _)
\* the shapes over D of rank 1..r
ShapesUpTo(D, r) ==
    IF r = 0 THEN {}
    ELSE ShapesUpTo(D, r - 1) \cup
         {Append(s, d) : s \in IF r = 1 THEN {<<>>} ELSE
                               {t \in ShapesUpTo(D, r - 1) : Len(t) = r - 1},
                         d \in D}

BatchOpts ==
    /\ pc = "start"
    /\ LET r == get_batchmm_opts(mm.a, Strides(mm.a), mm.b, Strides(mm.b),
                                 mm.c, Strides(mm.c))
       IN /\ result' = [Failed("batchmm", r.exc, r.msg) EXCEPT !.bopt = r]
          /\ pc' = IF r.exc = "none" THEN "returned" ELSE "failed"
    /\ UNCHANGED <<node, in_edges, out_edges, arrays, mm, mem, pending>>

NextBatch == BatchOpts

InitBatch ==
    /\ node = GemmNode("float32", FALSE, FALSE, Real(1), Real(0))
    /\ \E sa \in ShapesUpTo({2, 3}, MaxBatchRank), sb \in ShapesUpTo({2, 3}, MaxBatchRank),
          sc \in {NoneVal} \cup ShapesUpTo({2, 3}, MaxBatchRank) :
          mm = [a |-> sa, b |-> sb, c |-> sc]
    /\ in_edges = <<>>
    /\ out_edges = <<>>
    /\ arrays = HostArrays("float32")
    /\ pc = "start"
    /\ result = NoResult
    /\ mem = NoMem
    /\ pending = {}

SpecBatch == InitBatch /\ [][NextBatch]_vars

(* ------------- specification: the kinds of alpha and beta ------------- *)
\* type(value) of a scalar property: a Python or numpy real number, Python's
\* own complex, or a numpy complex scalar
ScalarKinds == {"real", "pycomplex", "npcomplex"}
\* the scalar v (v + 0j when the kind is complex)
Scalar(v, kind) == [val |-> v, kind |-> kind]
CastDtypes == {"float32", "float64", "complex64", "complex128"}

InitCast ==
    /\ \E al \in Scalars, be \in Scalars, ka \in ScalarKinds, kb \in ScalarKinds,
          dt \in CastDtypes :
          /\ node = GemmNode(dt, FALSE, FALSE, Scalar(al, ka), Scalar(be, kb))
          /\ arrays = HostArrays(dt)
    /\ \E sc \in {NoneVal, <<2, 2>>, <<2, 3>>} :
          in_edges = Edges(IF sc = NoneVal THEN <<"_a", "_b">>
                           ELSE <<"_a", "_b", "_c">>, <<2, 2>>, <<2, 2>>, sc)
    /\ out_edges = <<OutEdge("_y", <<2, 2>>)>>
    /\ InitRest

SpecCast == InitCast /\ [][Next]_vars

(* ============================== claims ================================ *)
\* the squeezed sizes of the operands as the graph holds them
SizeA == EdgeSize(in_edges, "_a", Unbound)
SizeB == EdgeSize(in_edges, "_b", Unbound)
SizeC == EdgeSize(in_edges, "_c", NoneVal)
SizeOut == Squeeze(out_edges[1].size)
Conns == {in_edges[i].dst_conn : i \in 1..Len(in_edges)}
\* a call of the node has returned or raised
Called(impl) == pc # "start" /\ result.impl = impl
Expanded == pc # "start" /\ result.impl \in {"pure", "MKL", "cuBLAS"}
Raised == result.exc # "none"

\* C1: validate raises nothing for a node with exactly the two in-edges _a
\* and _b (no _c) and one out-edge, when the squeezed sizes of A and B have
\* rank 2, A's second dimension is B's first and the squeezed output size is
\* (A's first, B's second).
C1_TwoInputsValidate ==
    ( /\ Called("validate")
      /\ Len(in_edges) = 2 /\ Conns = {"_a", "_b"}
      /\ Len(out_edges) = 1
      /\ Len(SizeA) = 2 /\ Len(SizeB) = 2
      /\ SizeA[2] = SizeB[1]
      /\ SizeOut = <<SizeA[1], SizeB[2]>> )
    => ~Raised

\* the cases C2 lists
BadInCount == Len(in_edges) \notin {2, 3}
BadOutCount == Len(out_edges) # 1
KMismatch == /\ SizeA # Unbound /\ SizeB # Unbound
             /\ Len(SizeA) >= 2 /\ Len(SizeB) >= 1
             /\ SizeA[2] # SizeB[1]
BadOutSize == /\ Len(out_edges) = 1
              /\ \/ Len(SizeOut) # 2
                 \/ /\ SizeA # Unbound /\ SizeB # Unbound
                    /\ Len(SizeA) >= 1 /\ Len(SizeB) >= 2
                    /\ SizeOut # <<SizeA[1], SizeB[2]>>
Rejectable == BadInCount \/ BadOutCount \/ KMismatch \/ BadOutSize

\* C2: validate raises, and every expansion raises and returns neither a
\* tasklet nor a subgraph, when the number of in-edges is not 2 or 3, the
\* number of out-edges is not 1, A's squeezed second dimension differs from
\* B's squeezed first dimension, or the squeezed output size is not of rank 2
\* or differs from (A's first, B's second).
C2_ValidateRejects ==
    (pc # "start" /\ Rejectable) => (Raised /\ result.kind = "none")

\* C2's case: with a _c edge present the MKL expansion stopped on the
\* k-dimension mismatch of A (2x3) and B (2x2)
C2_Witness ==
    /\ Called("MKL") /\ KMismatch /\ pc = "failed"
    /\ SizeA = <<2, 3>> /\ SizeB = <<2, 2>> /\ SizeC # NoneVal
    /\ result.msg = MsgKDim /\ result.kind = "none"

\* op(A), op(B): the sizes after the transposition flags
OpA == transShape(SizeA, node.transA)
OpB == transShape(SizeB, node.transB)

\* C3: for rank-2 A and B and a _c whose presence lets the comparison be
\* reached, validate rejects the k-dimension exactly when the second
\* dimension of op(A) differs from the first dimension of op(B).
C3_TransposedKDim ==
    ( /\ Called("validate")
      /\ Len(in_edges) = 3 /\ Conns = {"_a", "_b", "_c"} /\ Len(out_edges) = 1
      /\ Len(SizeA) = 2 /\ Len(SizeB) = 2 /\ Len(SizeC) = 2 )
    => ((result.msg = MsgKDim) <=> (OpA[2] # OpB[1]))

\* C10: for the batched node (A and B of shape 2x2x2, no _c) the MKL
\* expansion returns a loop over the 2 batch indices with the operand
\* pointers offset by the batch strides, and the cuBLAS expansion returns
\* one strided-batched call with BATCH = 2.
C10_BatchedLowering ==
    ( /\ Expanded /\ result.impl # "pure"
      /\ Len(in_edges) = 2 /\ Conns = {"_a", "_b"}
      /\ in_edges[1].size = <<2, 2, 2>> /\ in_edges[2].size = <<2, 2, 2>>
      /\ Len(out_edges) = 1 /\ out_edges[1].size = <<2, 2, 2>> )
    => /\ ~Raised
       /\ result.call.BATCH = 2
       /\ result.call.form = IF result.impl = "MKL" THEN "loop" ELSE "StridedBatched"
       /\ result.call.stride_a = 4 /\ result.call.stride_b = 4
       /\ result.call.stride_c = 4

\* C4: with a _c operand and beta # 0 on an otherwise valid untransposed
\* node, the pure expansion succeeds for the C shapes (M,N), (1,N), (M,1)
\* and (N,), the addition map reading _c at (i,j), (0,j), (i,0) and (j);
\* for any other C shape it raises and returns nothing.
C4_BiasBroadcast ==
    ( /\ Called("pure")
      /\ ~node.transA /\ ~node.transB /\ node.dtype # "None"
      /\ node.beta.val # 0
      /\ Len(in_edges) = 3 /\ Conns = {"_a", "_b", "_c"} /\ Len(out_edges) = 1
      /\ Len(SizeA) = 2 /\ Len(SizeB) = 2 /\ SizeA[2] = SizeB[1]
      /\ SizeOut = <<SizeA[1], SizeB[2]>> )
    => LET M == SizeA[1]
           N == SizeB[2]
           c == in_edges[3].size
       IN IF c \in {<<M, N>>, <<1, N>>, <<M, 1>>, <<N>>}
          THEN /\ ~Raised
               /\ result.kind = "sdfg"
               /\ result.sdfg.bias
               /\ result.sdfg.c_idx =
                     (CASE c = <<M, N>> -> "__i0, __i1"
                        [] c = <<1, N>> -> "0, __i1"
                        [] c = <<M, 1>> -> "__i0, 0"
                        [] OTHER -> "__i1")
          ELSE Raised /\ result.kind = "none"

\* C8: the routine call the MKL expansion emits is handed the node's alpha
\* and beta: the one/zero constant of the type when they are 1 and 0, the
\* node's own values otherwise.
C8_MklScalars ==
    (Called("MKL") /\ ~Raised)
    => /\ result.call.alpha.val = node.alpha.val
       /\ result.call.beta.val = node.beta.val

\* C9: for a validated node whose _a, _b and output edges each lead to an
\* access node the cuBLAS expansion succeeds: the bare tasklet when every
\* operand is in GPU_Global or CPU_Pinned storage, otherwise the staging
\* subgraph with the copies of both inputs and of the output; it raises
\* 'Unsupported input/output arrays' only when an access node is not found.
C9_GpuResolves ==
    (Called("cuBLAS") /\ validate(in_edges, out_edges).exc = "none")
    => /\ (arrays.a.access /\ arrays.b.access /\ arrays.y.access)
            => /\ ~Raised
               /\ IF \A o \in {"a", "b", "y"} : arrays[o].storage \in OnDevice
                  THEN result.kind = "tasklet" /\ result.staged = {}
                  ELSE /\ result.kind = "nsdfg"
                       /\ result.staged = {<<"_a", "_a_gpu">>, <<"_b", "_b_gpu">>,
                                           <<"_c_gpu", "_c">>}
       /\ result.msg = "Unsupported input/output arrays"
            => ~(arrays.a.access /\ arrays.b.access /\ arrays.y.access)

Rank(shape) == IF shape = NoneVal THEN 0 ELSE Len(shape)
Leading(shape) == IF Rank(shape) = 3 THEN {shape[1]} ELSE {}
LeadStride(shape) == IF Rank(shape) = 3 THEN Strides(shape)[1] ELSE 0

\* C7: _get_batchmm_opts raises when a rank exceeds 3; returns the empty
\* dictionary exactly when A, B and C all have rank <= 2; otherwise returns
\* the leading dimension of the rank-3 operands as the batch size with each
\* operand's leading stride (0 without a batch dimension), and raises when
\* two rank-3 operands differ in their leading dimension.
C7_BatchDetection ==
    Called("batchmm")
    => LET r == result.bopt
           lead == Leading(mm.a) \cup Leading(mm.b) \cup Leading(mm.c)
       IN IF Rank(mm.a) > 3 \/ Rank(mm.b) > 3 \/ Rank(mm.c) > 3 THEN Raised
          ELSE /\ (~Raised /\ ~r.batched) <=> lead = {}
               /\ Cardinality(lead) > 1 => Raised /\ result.msg = MsgBatch
               /\ Cardinality(lead) = 1 =>
                     /\ ~Raised /\ r.batched /\ r.b \in lead
                     /\ r.sa = LeadStride(mm.a) /\ r.sb = LeadStride(mm.b)
                     /\ r.sc = LeadStride(mm.c)

\* the matrix product the specification asks of the pure expansion
OpM == IF node.transA THEN mm.a[2] ELSE mm.a[1]
OpK == IF node.transA THEN mm.a[1] ELSE mm.a[2]
OpN == IF node.transB THEN mm.b[1] ELSE mm.b[2]
OpAVal(i, k) == IF node.transA THEN AVal(k, i) ELSE AVal(i, k)
OpBVal(k, j) == IF node.transB THEN BVal(j, k) ELSE BVal(k, j)
RECURSIVE Dot(_, _, _)
Dot(i, j, k) == IF k = 0 THEN 0 ELSE OpAVal(i, k) * OpBVal(k, j) + Dot(i, j, k - 1)
Broadcast(i, j) ==
    CASE mm.c = NoneVal -> 0
      [] mm.c = <<OpM, OpN>> -> CVal(i, j)
      [] mm.c = <<1, OpN>> -> CVal(1, j)
      [] mm.c = <<OpM, 1>> -> CVal(i, 1)
      [] OTHER -> CVec(j)

CastFailed ==
    /\ result.exc = "ValueError" /\ result.kind = "none"
    /\ result.msg = "Cannot use complex beta with non-complex array"
ComplexScalarGiven == node.alpha.kind # "real" \/ node.beta.kind # "real"

\* C11: on a node that validates and has its element type set, the pure
\* expansion fails on the scalar check, emitting nothing, exactly when alpha
\* or beta is a complex scalar and the element type of the arrays is not
\* complex; a real scalar with any element type and a complex scalar with a
\* complex element type do not fail on it.
C11_ScalarKindCheck ==
    ( /\ Called("pure")
      /\ validate(in_edges, out_edges).exc = "none"
      /\ node.dtype # "None" )
    => (CastFailed <=> (ComplexScalarGiven /\ ~IsComplexDtype(arrays.a.dtype)))

====
